---- MODULE Spec2Model ----
(***************************************************************************)
(* Model of src/api.py: the POST /boost endpoint and selenium_boost_worker, *)
(* the Selenium session it runs on an executor thread.                       *)
(*                                                                           *)
(* Each request r has its own worker frame w[r] (the locals of one call of   *)
(* selenium_boost_worker) together with the browser-side facts the driver    *)
(* of that call observes.  The browser and the web site are the              *)
(* environment: what a driver call returns, and whether it raises, is        *)
(* chosen nondeterministically at the call.                                  *)
(*                                                                           *)
(* Log lines are modelled by their fixed text; interpolated values are left  *)
(* out.  Strings that the code inspects (button text, class attribute) are   *)
(* sequences of tokens, see Lower, Strip, Normalise, Contains.               *)
(***************************************************************************)
EXTENDS Integers, Sequences, FiniteSets, TLC

VARIABLES
    w,          \* w[r]: the frame of request r's selenium_boost_worker call
    ep,         \* ep[r]: position of boost_endpoint for request r
    http,       \* http[r]: what the endpoint returned for request r
    loopOwner,  \* the request whose blocking work occupies the event loop, or 0
    mode        \* "full" or "lite": how much the environment may vary

vars == <<w, ep, http, loopOwner, mode>>

----------------------------------------------------------------------------
(* Program constants, src/api.py:22-27 *)
DEFAULT_WAIT_TIME == 25
DEFAULT_MAX_SCROLL_LOOPS == 60
DEFAULT_JS_POLL_INTERVAL == 1
DEFAULT_JS_POLL_TIMEOUT == 45

(* Bounds of the model *)
MaxNumButtons == 2     \* num_buttons ranges over 1..MaxNumButtons
MaxButtons == 2        \* a page shows at most this many boost buttons
MaxFrames == 2         \* a page holds at most this many iframes
MaxCount == 1          \* querySelectorAll(...).length ranges over 0..MaxCount
MaxHeight == 1         \* document.body.scrollHeight ranges over 0..MaxHeight
PollLatency == 22      \* script latency of one polling round, in seconds

Reqs == {1, 2}
None == "None"
NoResp == [kind |-> "none"]

Min(a, b) == IF a < b THEN a ELSE b
Max3(a, b, c) == IF a >= b /\ a >= c THEN a ELSE IF b >= c THEN b ELSE c

----------------------------------------------------------------------------
(* Strings as token sequences.  A token is a word, a run of letters the     *)
(* code never looks inside, or one whitespace character.  Tokens that       *)
(* follow each other are adjacent in the string: <<"in", "progress">> is    *)
(* 'inprogress', <<"in", " ", "progress">> is 'in progress'.                *)
WS == {" ", "\t"}

LowerTok(t) ==
    CASE t = "BOOST" -> "boost"
      [] t = "PROGRESS" -> "progress"
      [] t = "USAGE-BOOST-INPROGRESS" -> "usage-boost-inprogress"
      [] OTHER -> t

\* str.lower()
Lower(s) == [k \in 1..Len(s) |-> LowerTok(s[k])]

RECURSIVE LStrip(_)
LStrip(s) == IF s # <<>> /\ Head(s) \in WS THEN LStrip(Tail(s)) ELSE s

RECURSIVE RStrip(_)
RStrip(s) ==
    IF s # <<>> /\ s[Len(s)] \in WS THEN RStrip(SubSeq(s, 1, Len(s) - 1)) ELSE s

\* str.strip() (and JS trim())
Strip(s) == LStrip(RStrip(s))

\* " ".join(s.split()): whitespace runs become one space, none at the ends
RECURSIVE Normalise(_)
Normalise(s) ==
    LET t == LStrip(s) IN
    IF t = <<>> THEN <<>>
    ELSE IF Len(t) >= 2 /\ t[2] \in WS
         THEN LET rest == Normalise(Tail(t)) IN
              IF rest = <<>> THEN <<t[1]>> ELSE <<t[1], " ">> \o rest
         ELSE <<t[1]>> \o Normalise(Tail(t))

\* pat in s, for a pattern that is a token sequence
Contains(s, pat) ==
    \E k \in 0..(Len(s) - Len(pat)) : SubSeq(s, k + 1, k + Len(pat)) = pat

(* What the environment may show *)
Texts ==
    { <<"BOOST">>,
      <<" ", "boost", "\t", " ", "now", " ">>,
      <<"boost", " ", "in", " ", "PROGRESS">>,
      <<"boost", "in", "progress">>,
      <<"now">>,
      <<>> }
LiteTexts == { <<"BOOST">>, <<"now">> }

Classes ==
    { <<"usage-boost-button">>,
      <<"usage-boost-button", " ", "usage-boost-inprogress">>,
      <<"usage-boost-button", " ", "USAGE-BOOST-INPROGRESS">>,
      <<>> }
LiteClasses == { <<"usage-boost-button">> }

Addresses == {None, "12 Elm St"}
ExcMsgs == {"TimeoutException", "WebDriverException"}

TextsOf(m) == IF m = "full" THEN Texts ELSE LiteTexts
ClassesOf(m) == IF m = "full" THEN Classes ELSE LiteClasses
AddressesOf(m) == IF m = "full" THEN Addresses ELSE {None}
\* the messages a driver call may raise with
Faults(m) == IF m = "full" THEN ExcMsgs ELSE {}
HeightsOf(m) == IF m = "full" THEN 0..MaxHeight ELSE {0}
FramesOf(m) == IF m = "full" THEN 0..MaxFrames ELSE 0..1
ButtonsOf(m) == IF m = "full" THEN 0..MaxButtons ELSE 0..1
LatenciesOf(m) == IF m = "full" THEN {PollLatency, 2 * PollLatency} ELSE {2 * PollLatency}
NumButtonsOf(m) == IF m = "full" THEN 1..MaxNumButtons ELSE {1}
WaitTimesOf(m) == IF m = "full" THEN {-1, 0} ELSE {0}

----------------------------------------------------------------------------
(* The frame of one call of selenium_boost_worker, src/api.py:180-185.      *)
(* The fields after `result' are observations of the run, not locals:       *)
(*   session     the Chrome process of this call: none, running, closed      *)
(*   frame       the browsing context the driver is in: Default, the default *)
(*               content, or the index (from 0) of an iframe                 *)
(*   ops         the driver operations performed and the finding of a        *)
(*               context, in order, immediate repeats collapsed              *)
(*   quits       calls of driver.quit()                                      *)
(*   shots       calls of driver.get_screenshot_as_base64()                  *)
(*   attempted   the buttons on which a click was attempted, in order        *)
(*   obs         the scroll heights the page reported at the last two reads  *)
(*   lastInsp    what the last inspected button showed, and the decision     *)
(*   logsAtRaise the log as it was when the pending exception was raised     *)
(*   backFailed  a switch back to the default content raised                 *)
(*   swallowed   the steps, other than the inspection or click of one        *)
(*               button, in which an exception was raised and caught         *)
(*               before the handler at line 362                              *)
NoInsp == [seen |-> FALSE]

\* found_context is None, ("main", None) or ("iframe", idx); the second
\* component of the first two is written -1
NoContext == <<"none", -1>>
MainContext == <<"main", -1>>
IframeContext(idx) == <<"iframe", idx>>
\* the default content, as a value of `frame'
Default == -1
\* the count "err" of js_count_in_iframes, src/api.py:125
Err == -1

NewFrame(num, wt) ==
    [ pc |-> "idle", thread |-> "none",
      num_buttons |-> num, wait_time |-> wt,
      logs |-> <<>>, clicked_addresses |-> <<>>, screenshot_b64 |-> None,
      driver |-> None,
      loops |-> 0, last_height |-> 0, new_height |-> 0,
      elapsed |-> 0, found_context |-> NoContext, found_count |-> 0,
      c_buttons |-> 0, c_cards |-> 0, c_addresses |-> 0, iframe_counts |-> <<>>,
      buttons |-> <<>>, idx |-> 0, boostable |-> <<>>,
      to_click |-> 0, i |-> 0, clicked |-> 0,
      exc |-> None, result |-> NoResp,
      session |-> "none", frame |-> Default, ops |-> <<>>, quits |-> 0, shots |-> 0,
      attempted |-> <<>>, obs |-> <<0, 0>>, lastInsp |-> NoInsp,
      logsAtRaise |-> <<>>, backFailed |-> FALSE, swallowed |-> {} ]

\* logs.append(line); a line is its fixed text and its interpolated message
Log(s, line) == [s EXCEPT !.logs = Append(@, <<line, "">>)]
LogMsg(s, line, msg) == [s EXCEPT !.logs = Append(@, <<line, msg>>)]

\* the driver performed op
Op(s, op) ==
    IF s.ops # <<>> /\ s.ops[Len(s.ops)] = op THEN s
    ELSE [s EXCEPT !.ops = Append(@, op)]

\* an exception with message msg leaves the try block at src/api.py:186
Raise(s, msg) ==
    [s EXCEPT !.pc = "except", !.exc = msg, !.logsAtRaise = s.logs]

\* a driver call outside any inner try: it performs op, logs line and goes on
\* to next, or raises into the handler at src/api.py:362
Call(s, op, line, next, m) ==
    { [Log(Op(s, op), line) EXCEPT !.pc = next] }
        \cup { Raise(Op(s, "failed call"), e) : e \in Faults(m) }

\* wait_time or DEFAULT_WAIT_TIME
OrDefault(wt) == IF wt # 0 THEN wt ELSE DEFAULT_WAIT_TIME

----------------------------------------------------------------------------
(* selenium_boost_worker, step by step.  Each operator gives the frames     *)
(* that one step of the call can lead to from frame s.                       *)

\* src/api.py:187
StartStep(s) == { [Log(s, "Starting Selenium worker") EXCEPT !.pc = "get_driver"] }

\* get_driver, src/api.py:130-176, called at line 190; line 191 builds the wait.
\* Chrome (line 173) starts the browser; the two timeout setters that follow
\* reject a negative timeout and may fail like any driver command.
GetDriverStep(s, m) ==
    LET timeout == OrDefault(s.wait_time)
        started == [s EXCEPT !.session = "running"]
    IN  { Raise(s, e) : e \in Faults(m) }
          \cup (IF timeout < 0
                THEN { Raise(started, "InvalidArgumentException") }
                ELSE { Raise(started, e) : e \in Faults(m) }
                       \cup { [started EXCEPT !.driver = "driver", !.pc = "open_home"] })

\* src/api.py:194-195
OpenHomeStep(s, m) ==
    Call(s, "get home", "Opened affordablehousing.com", "click_signin", m)

\* src/api.py:198-199
ClickSignInStep(s, m) ==
    Call(s, "click sign-in link", "Clicked homepage Sign In", "enter_email", m)

\* src/api.py:201-204
EnterEmailStep(s, m) ==
    Call(s, "send email", "Entered email", "click_first_signin", m)

\* src/api.py:206-207
ClickFirstSignInStep(s, m) ==
    Call(s, "click signin-button", "Clicked first Sign In button", "enter_password", m)

\* src/api.py:209-212
EnterPasswordStep(s, m) ==
    Call(s, "send password", "Entered password", "click_final_signin", m)

\* src/api.py:214-215
ClickFinalSignInStep(s, m) ==
    Call(s, "click signin-with-password-button", "Clicked final Sign In button",
         "confirm_login", m)

\* lines 218-219 left out: the listing page is opened without the wait
ConfirmLoginSkipped(s, m) == { [s EXCEPT !.pc = "open_listing"] }

\* src/api.py:218-219
ConfirmLoginStep(s, m) ==
    Call(s, "url contains dashboard", "Login confirmed (dashboard)", "open_listing", m)

\* src/api.py:222-224
OpenListingStep(s, m) ==
    Call(s, "get listing", "Navigated to listing page", "scroll_init", m)

\* src/api.py:227-230
ScrollInitStep(s, m) ==
    { [Op(s, "read height") EXCEPT !.loops = 0, !.last_height = h,
                                   !.obs = <<h, h>>, !.pc = "scroll_loop"]
        : h \in HeightsOf(m) }
      \cup { Raise(Op(s, "failed call"), e) : e \in Faults(m) }

\* the test at line 236 inverted: the loop stops when the page has grown
HeightChanged(new_height, last_height) == new_height # last_height

\* the test at src/api.py:236
HeightUnchanged(new_height, last_height) == new_height = last_height

\* one iteration of the loop at src/api.py:231-239
ScrollStepStep(s, m) ==
    LET s1 == Op(s, "scroll")
        s2 == [s1 EXCEPT !.loops = @ + 1]
    IN  { Raise(Op(s, "failed call"), e) : e \in Faults(m) }
          \cup { Raise(Op(s2, "failed call"), e) : e \in Faults(m) }
          \cup { [s2 EXCEPT !.new_height = h,
                            !.obs = <<s.obs[2], h>>,
                            !.last_height = IF HeightUnchanged(h, s.last_height)
                                            THEN @ ELSE h,
                            !.pc = IF HeightUnchanged(h, s.last_height)
                                   THEN "scroll_end" ELSE "scroll_loop"]
                 : h \in HeightsOf(m) }

\* src/api.py:240-245; loops, last_height and new_height are not read again
ScrollEndStep(s) ==
    { [Log(s, "Finished incremental scrolling")
         EXCEPT !.loops = 0, !.last_height = 0, !.new_height = 0, !.obs = <<0, 0>>,
                !.elapsed = 0, !.found_context = NoContext, !.found_count = 0,
                !.pc = "poll"] }

----------------------------------------------------------------------------
(* JS polling, src/api.py:242-276 *)

\* src/api.py:251-253: the context and count the main document gives
MainFound(cb, cc, ca) == cb > 0 \/ cc > 0 \/ ca > 0
MainCount(cb, cc, ca) == Max3(cb, cc, ca)

\* src/api.py:247-254 and, when nothing is found, the hand-over to line 257.
\* safe_js_count (101-105) turns a failing script into the count 0.
PollMainStep(s, m) ==
    { LET s1 == [Log(Op(s, "count main"), "[JS POLL]")
                   EXCEPT !.c_buttons = cb, !.c_cards = cc, !.c_addresses = ca]
      IN  IF MainFound(cb, cc, ca)
          THEN [s1 EXCEPT !.found_context = MainContext,
                          !.found_count = MainCount(cb, cc, ca),
                          !.pc = "poll_result"]
          ELSE [s1 EXCEPT !.pc = "poll_iframes"]
      : cb \in 0..MaxCount, cc \in 0..MaxCount, ca \in 0..MaxCount }

\* What one probe of js_count_in_iframes can do, src/api.py:115-125:
\*   ok      lines 116-119 all succeed
\*   noframe switch_to.frame raises; line 122 succeeds
\*   stay    switch_to.frame raises; line 122 raises too
\*   back1   line 119 raises after the count was appended; line 122 succeeds
\*   back2   line 119 raises after the count was appended; line 122 raises too
ProbeKinds(m) ==
    IF m = "full" THEN {"ok", "noframe", "stay", "back1", "back2"} ELSE {"ok"}
Probes(m) == [kind : ProbeKinds(m), c : 0..MaxCount]

\* the entries one probe of frame i appends to counts
ProbeCounts(i, p) ==
    CASE p.kind = "ok" -> << <<i, p.c>> >>
      [] p.kind \in {"noframe", "stay"} -> << <<i, Err>> >>
      [] OTHER -> << <<i, p.c>>, <<i, Err>> >>

\* line 119 left out: the driver stays in the frame it counted in
SwitchBackMissing(i, f) == i

\* src/api.py:119: the switch back after a successful count of frame i,
\* entered from browsing context f
SwitchBack(i, f) == Default

\* the browsing context after one probe of frame i, entered from context f
ProbeFrame(i, p, f) ==
    CASE p.kind = "ok" -> SwitchBack(i, f)
      [] p.kind = "noframe" -> Default
      [] p.kind = "stay" -> f
      [] p.kind = "back1" -> Default
      [] OTHER -> i

\* js_count_in_iframes over frames k..n-1 (numbered from 0), src/api.py:108-126
RECURSIVE js_count_in_iframes(_, _, _, _)
js_count_in_iframes(ps, k, f, failed) ==
    IF k > Len(ps) THEN [counts |-> <<>>, frame |-> f, failed |-> failed]
    ELSE LET p == ps[k]
             rest == js_count_in_iframes(ps, k + 1, ProbeFrame(k - 1, p, f),
                                         failed \/ p.kind \in {"stay", "back2"})
         IN  [rest EXCEPT !.counts = ProbeCounts(k - 1, p) \o @]

\* isinstance(count, int) and count > 0, src/api.py:259
PositiveInt(c) == c # Err /\ c > 0

\* src/api.py:258-262: the first entry with a positive count, or NoContext
RECURSIVE FirstPositive(_)
FirstPositive(counts) ==
    IF counts = <<>> THEN [ctx |-> NoContext, count |-> 0]
    ELSE IF PositiveInt(Head(counts)[2])
         THEN [ctx |-> IframeContext(Head(counts)[1]), count |-> Head(counts)[2]]
         ELSE FirstPositive(Tail(counts))

\* src/api.py:257-266
PollIframesStep(s, m) ==
    { LET r == js_count_in_iframes(ps, 1, s.frame, s.backFailed)
          hit == FirstPositive(r.counts)
          s1 == [Op(s, "count iframes") EXCEPT !.frame = r.frame,
                                               !.backFailed = r.failed]
      IN  IF hit.ctx # NoContext
          THEN [s1 EXCEPT !.iframe_counts = r.counts,
                          !.found_context = hit.ctx, !.found_count = hit.count,
                          !.pc = "poll_result"]
          ELSE [s1 EXCEPT !.iframe_counts = <<>>,
                          !.elapsed = @ + DEFAULT_JS_POLL_INTERVAL + lat,
                          !.pc = "poll"]
      : ps \in UNION { [1..n -> Probes(m)] : n \in FramesOf(m) },
        lat \in LatenciesOf(m) }

\* get_screenshot_as_base64 inside try/except, src/api.py:271-275 and 329-333
Screenshot(s, okLine, failLine, m) ==
    LET s1 == [Op(s, "screenshot") EXCEPT !.shots = @ + 1]
    IN  { [Log(s1, okLine) EXCEPT !.screenshot_b64 = "image"] }
          \cup (IF Faults(m) = {} THEN {} ELSE { Log(s1, failLine) })

\* src/api.py:268-276; the counts and the clock are not read again
PollResultStep(s, m) ==
    LET s1 == [Log(s, "[JS POLL RESULT]")
                 EXCEPT !.c_buttons = 0, !.c_cards = 0, !.c_addresses = 0,
                        !.iframe_counts = <<>>, !.found_count = 0, !.elapsed = 0]
    IN  IF s.found_context = NoContext
        THEN { Raise(t, "No listing cards or buttons found after JS polling")
               : t \in Screenshot(s1, "No cards/buttons found - saved screenshot (base64)",
                                      "No cards/buttons found - screenshot failed", m) }
        ELSE { [Op(s1, "context found") EXCEPT !.pc = "collect"] }

----------------------------------------------------------------------------
(* Button collection, src/api.py:278-306.  A collection attempt yields      *)
(* [st, n, raised]: the frame after it, the number of buttons it holds and   *)
(* whether an exception is on its way to the handler at line 362.            *)
Got(st, n) == [st |-> st, n |-> n, raised |-> FALSE]
Thrown(st) == [st |-> st, n |-> 0, raised |-> TRUE]

\* src/api.py:281-282
CollectMain(s, m) ==
    { Got(Log(Op(s, "find buttons"), "Collected button elements in main document"), n)
        : n \in ButtonsOf(m) }
      \cup { Thrown(Raise(Op(s, "failed call"), e)) : e \in Faults(m) }

\* the handler at src/api.py:292-295, entered in browsing context f
CollectHandler(s, f, m) ==
    LET s1 == Log([s EXCEPT !.frame = f, !.swallowed = @ \cup {"collection"}],
                  "Error collecting buttons from iframe")
    IN  { Got([s1 EXCEPT !.frame = Default], 0) }
          \cup { Thrown(Raise([s1 EXCEPT !.backFailed = TRUE], e)) : e \in Faults(m) }

\* src/api.py:284-295
CollectIframe(s, idx, m) ==
    LET s1 == Op(s, "find iframes")
        inside(n) == Log(Op([s1 EXCEPT !.frame = idx], "find buttons"),
                         "Collected buttons inside iframe")
    IN  { Thrown(Raise(Op(s, "failed call"), e)) : e \in Faults(m) }
          \cup UNION { IF idx < nf
                       THEN { Got([inside(n) EXCEPT !.frame = Default], n)
                                : n \in ButtonsOf(m) }
                              \cup (IF Faults(m) = {} THEN {}
                                    ELSE CollectHandler(s1, s1.frame, m)
                                           \cup CollectHandler(s1, idx, m)
                                           \cup UNION { CollectHandler(inside(n), idx, m)
                                                        : n \in ButtonsOf(m) })
                       ELSE { Got(s1, 0) }
                     : nf \in FramesOf(m) }

\* the fallback at src/api.py:298-304
CollectFallback(s, m) ==
    { Got(Log(Op(s, "query buttons"), "Collected button elements via JS->Selenium"), n)
        : n \in ButtonsOf(m) }
      \cup (IF Faults(m) = {} THEN {}
            ELSE { Got(Log([Op(s, "failed call") EXCEPT !.swallowed = @ \cup {"collection"}],
                           "Failed JS->Selenium button collection"), 0) })

\* src/api.py:278-309; found_context is not read again
CollectStep(s, m) ==
    LET first == IF s.found_context = MainContext
                 THEN CollectMain(s, m)
                 ELSE CollectIframe(s, s.found_context[2], m)
        second == { c \in first : c.raised }
                    \cup { c \in first : ~c.raised /\ c.n > 0 }
                    \cup UNION { CollectFallback(c.st, m)
                                 : c \in { d \in first : ~d.raised /\ d.n = 0 } }
    IN  { IF c.raised THEN c.st
          ELSE [Log(c.st, "[DEBUG] total button WebElements collected")
                  EXCEPT !.buttons = [k \in 1..c.n |-> k], !.idx = 0,
                         !.boostable = <<>>, !.found_context = NoContext,
                         !.pc = "inspect"]
          : c \in second }

----------------------------------------------------------------------------
(* Filtering, src/api.py:308-334 *)

\* get_element_text_via_js, src/api.py:51-58, of an element showing raw;
\* a failing script gives "", which is among the texts
get_element_text_via_js(raw) == Strip(Strip(raw))

\* line 315 with the class test only
InProgressByClass(classes, norm) == Contains(classes, <<"usage-boost-inprogress">>)

\* src/api.py:315
InProgress(classes, norm) ==
    \/ Contains(classes, <<"usage-boost-inprogress">>)
    \/ Contains(norm, <<"progress">>)
    \/ Contains(norm, <<"in", "progress">>)

\* src/api.py:316
IsBoostable(classes, norm) == Contains(norm, <<"boost">>) /\ ~InProgress(classes, norm)

\* one iteration of the loop at src/api.py:310-324, on button idx + 1
InspectStep(s, m) ==
    LET btn == s.buttons[s.idx + 1]
        s1 == [Op(s, "inspect") EXCEPT !.idx = @ + 1]
    IN  UNION {
          LET norm == Normalise(Lower(get_element_text_via_js(raw)))
              warned == [Log(s1, "[WARN] error inspecting btn")
                           EXCEPT !.lastInsp = [seen |-> TRUE, btn |-> btn, raw |-> raw,
                                                cls |-> <<>>, raised |-> TRUE,
                                                added |-> FALSE]]
          IN  (IF Faults(m) = {} THEN {} ELSE {warned})
                \cup UNION {
                  LET classes == Lower(cls)
                      add == IsBoostable(classes, norm)
                      s2 == [s1 EXCEPT !.lastInsp = [seen |-> TRUE, btn |-> btn,
                                                     raw |-> raw, cls |-> cls,
                                                     raised |-> FALSE, added |-> add]]
                  IN  IF add
                      THEN { [Log(s2, "[FOUND] btn")
                                EXCEPT !.boostable =
                                  Append(@, [address |-> a, btn |-> btn, text |-> norm])]
                             : a \in AddressesOf(m) }
                      ELSE { Log(s2, "[SKIP] btn") }
                  : cls \in ClassesOf(m) }
          : raw \in TextsOf(m) }

\* ToClick without the cap: every boostable button is clicked
ToClickAll(num_buttons, n) == n

\* src/api.py:337
ToClick(num_buttons, n) == Min(num_buttons, n)

\* the test at line 327 left out: an empty list goes on to the click loop
NeverNothingToBoost(boostable) == FALSE

\* not boostable, src/api.py:327
NothingToBoost(boostable) == boostable = <<>>

\* src/api.py:326-338
InspectDoneStep(s, m) ==
    LET s1 == [Log(s, "Total boostable detected") EXCEPT !.lastInsp = NoInsp]
    IN  IF NothingToBoost(s.boostable)
        THEN { Raise(t, "No boostable buttons found to click")
               : t \in Screenshot(s1, "No boostable buttons after filtering - saved screenshot (base64)",
                                      "No boostable buttons - screenshot failed", m) }
        ELSE { [s1 EXCEPT !.to_click = ToClick(s.num_buttons, Len(s.boostable)),
                          !.clicked = 0, !.i = 0, !.pc = "click"] }

----------------------------------------------------------------------------
(* Clicking, src/api.py:339-360 *)

\* one iteration of the loop at src/api.py:339-351, on boostable[i] (from 0).
\* The attempt on an entry is lines 342-344: scroll it into view, then click.
ClickStep(s, m) ==
    LET e == s.boostable[s.i + 1]
        s1 == [s EXCEPT !.i = @ + 1, !.attempted = Append(@, e.btn)]
    IN  { [Log(Op(s1, "click boost"), "Clicked boost for")
             EXCEPT !.clicked = @ + 1,
                    !.clicked_addresses = Append(@, e.address)] }
          \cup (IF Faults(m) = {} THEN {}
                ELSE { Log(Op(s1, "failed call"), "Error clicking boost") })

\* BoostResponse(...), src/api.py:41-47; debug_logs is the log as it is now
BoostResponse(success, clicked_count, clicked_addresses, debug_logs, error, shot) ==
    [ kind |-> "BoostResponse", success |-> success, clicked_count |-> clicked_count,
      clicked_addresses |-> clicked_addresses, debug_logs |-> debug_logs,
      error |-> error, screenshot_base64 |-> shot ]

\* src/api.py:353-360
ReturnStep(s) ==
    { [s EXCEPT !.result = BoostResponse(TRUE, s.clicked, s.clicked_addresses, s.logs,
                                         None, s.screenshot_b64),
                !.pc = "finally"] }

\* the response of the handler, src/api.py:374-381
ErrorResponse(s) ==
    BoostResponse(FALSE, 0, <<>>, s.logs, s.exc, s.screenshot_b64)

\* src/api.py:362-381
ExceptStep(s, m) ==
    LET s1 == Log(LogMsg(s, "Unhandled exception: ", s.exc), "traceback")
        shot == IF s.driver = None THEN {s1}
                ELSE LET s2 == [Op(s1, "screenshot") EXCEPT !.shots = @ + 1]
                     IN  { [Log(s2, "Captured error screenshot (base64)")
                              EXCEPT !.screenshot_b64 = "image"] }
                           \cup (IF Faults(m) = {} THEN {} ELSE {s2})
    IN  { [t EXCEPT !.result = ErrorResponse(t), !.pc = "finally"] : t \in shot }

\* the finally block without its try/except: a failure of quit leaves the call
QuitFailedRaises(s) == [s EXCEPT !.pc = "raised", !.exc = "WebDriverException"]

\* what the except clause at src/api.py:387-388 does with a failure of quit
QuitFailed(s) == [s EXCEPT !.pc = "done"]

\* src/api.py:382-388; after a failing quit the browser may or may not be gone
FinallyStep(s, m) ==
    IF s.driver = None THEN { [s EXCEPT !.pc = "done"] }
    ELSE LET s1 == [Op(s, "quit") EXCEPT !.quits = @ + 1]
         IN  { [Log(s1, "Driver.quit() called") EXCEPT !.session = "closed", !.pc = "done"] }
               \cup (IF Faults(m) = {} THEN {}
                     ELSE { QuitFailed([s1 EXCEPT !.session = x,
                                                  !.swallowed = @ \cup {"quit"}])
                            : x \in {"running", "closed"} })

----------------------------------------------------------------------------
(* boost_endpoint, src/api.py:392-409 *)

\* the worker called directly in the coroutine: it runs on the event loop's
\* thread, which it occupies until it returns
run_on_loop(r) == [thread |-> "loop", loop |-> r]

\* loop.run_in_executor(None, selenium_boost_worker, ...), src/api.py:397-405:
\* the call runs on a thread of the default executor and the coroutine awaits
\* it, which leaves the event loop free
run_in_executor(r) == [thread |-> "executor", loop |-> 0]

\* what the endpoint returns once the awaited call has ended, src/api.py:406-409
EndpointResult(r) ==
    IF w[r].pc = "raised"
    THEN [kind |-> "HTTPException", status_code |-> 500, detail |-> w[r].exc]
    ELSE w[r].result

Step(r, succ) ==
    /\ \E t \in succ : w' = [w EXCEPT ![r] = t]
    /\ UNCHANGED <<ep, http, loopOwner, mode>>

\* src/api.py:393-405, up to the await
boost_endpoint(r) ==
    /\ ep[r] = "received"
    /\ loopOwner = 0
    /\ LET x == run_in_executor(r)
       IN  /\ w' = [w EXCEPT ![r] = [@ EXCEPT !.pc = "start", !.thread = x.thread,
                                              !.wait_time = OrDefault(@)]]
           /\ loopOwner' = x.loop
    /\ ep' = [ep EXCEPT ![r] = "awaiting"]
    /\ UNCHANGED <<http, mode>>

\* src/api.py:406-409, after the await
Respond(r) ==
    /\ ep[r] = "awaiting"
    /\ w[r].pc \in {"done", "raised"}
    /\ loopOwner \in {0, r}
    /\ http' = [http EXCEPT ![r] = EndpointResult(r)]
    /\ ep' = [ep EXCEPT ![r] = "responded"]
    /\ loopOwner' = 0
    /\ UNCHANGED <<w, mode>>

Start(r) == w[r].pc = "start" /\ Step(r, StartStep(w[r]))
GetDriver(r) == w[r].pc = "get_driver" /\ Step(r, GetDriverStep(w[r], mode))
OpenHome(r) == w[r].pc = "open_home" /\ Step(r, OpenHomeStep(w[r], mode))
ClickSignIn(r) == w[r].pc = "click_signin" /\ Step(r, ClickSignInStep(w[r], mode))
EnterEmail(r) == w[r].pc = "enter_email" /\ Step(r, EnterEmailStep(w[r], mode))
ClickFirstSignIn(r) ==
    w[r].pc = "click_first_signin" /\ Step(r, ClickFirstSignInStep(w[r], mode))
EnterPassword(r) == w[r].pc = "enter_password" /\ Step(r, EnterPasswordStep(w[r], mode))
ClickFinalSignIn(r) ==
    w[r].pc = "click_final_signin" /\ Step(r, ClickFinalSignInStep(w[r], mode))
ConfirmLogin(r) == w[r].pc = "confirm_login" /\ Step(r, ConfirmLoginStep(w[r], mode))
OpenListing(r) == w[r].pc = "open_listing" /\ Step(r, OpenListingStep(w[r], mode))
ScrollInit(r) == w[r].pc = "scroll_init" /\ Step(r, ScrollInitStep(w[r], mode))
ScrollStep(r) ==
    /\ w[r].pc = "scroll_loop"
    /\ w[r].loops < DEFAULT_MAX_SCROLL_LOOPS
    /\ Step(r, ScrollStepStep(w[r], mode))
ScrollEnd(r) ==
    /\ w[r].pc = "scroll_end"
         \/ (w[r].pc = "scroll_loop" /\ ~(w[r].loops < DEFAULT_MAX_SCROLL_LOOPS))
    /\ Step(r, ScrollEndStep(w[r]))
PollMain(r) ==
    /\ w[r].pc = "poll"
    /\ w[r].elapsed < DEFAULT_JS_POLL_TIMEOUT
    /\ Step(r, PollMainStep(w[r], mode))
PollIframes(r) == w[r].pc = "poll_iframes" /\ Step(r, PollIframesStep(w[r], mode))
PollResult(r) ==
    /\ w[r].pc = "poll_result"
         \/ (w[r].pc = "poll" /\ ~(w[r].elapsed < DEFAULT_JS_POLL_TIMEOUT))
    /\ Step(r, PollResultStep(w[r], mode))
Collect(r) == w[r].pc = "collect" /\ Step(r, CollectStep(w[r], mode))
Inspect(r) ==
    /\ w[r].pc = "inspect"
    /\ w[r].idx < Len(w[r].buttons)
    /\ Step(r, InspectStep(w[r], mode))
InspectDone(r) ==
    /\ w[r].pc = "inspect"
    /\ ~(w[r].idx < Len(w[r].buttons))
    /\ Step(r, InspectDoneStep(w[r], mode))
Click(r) ==
    /\ w[r].pc = "click"
    /\ w[r].i < w[r].to_click
    /\ Step(r, ClickStep(w[r], mode))
Return(r) ==
    /\ w[r].pc = "click"
    /\ ~(w[r].i < w[r].to_click)
    /\ Step(r, ReturnStep(w[r]))
Except(r) == w[r].pc = "except" /\ Step(r, ExceptStep(w[r], mode))
Finally(r) == w[r].pc = "finally" /\ Step(r, FinallyStep(w[r], mode))

Worker(r) ==
    \/ Start(r) \/ GetDriver(r) \/ OpenHome(r) \/ ClickSignIn(r) \/ EnterEmail(r)
    \/ ClickFirstSignIn(r) \/ EnterPassword(r) \/ ClickFinalSignIn(r)
    \/ ConfirmLogin(r) \/ OpenListing(r) \/ ScrollInit(r) \/ ScrollStep(r)
    \/ ScrollEnd(r) \/ PollMain(r) \/ PollIframes(r) \/ PollResult(r)
    \/ Collect(r) \/ Inspect(r) \/ InspectDone(r) \/ Click(r) \/ Return(r)
    \/ Except(r) \/ Finally(r)

Next == \E r \in Reqs : boost_endpoint(r) \/ Worker(r) \/ Respond(r)

\* one request, any input, the environment unrestricted
Init ==
    /\ mode = "full"
    /\ w \in [Reqs -> {NewFrame(n, wt) : n \in NumButtonsOf("full"),
                                          wt \in WaitTimesOf("full")}]
    /\ w[2] = NewFrame(1, 0)
    /\ ep = [r \in Reqs |-> IF r = 1 THEN "received" ELSE "absent"]
    /\ http = [r \in Reqs |-> NoResp]
    /\ loopOwner = 0

\* two requests in flight; the page is static and no driver call fails
InitConc ==
    /\ mode = "lite"
    /\ w = [r \in Reqs |-> NewFrame(1, 0)]
    /\ ep = [r \in Reqs |-> "received"]
    /\ http = [r \in Reqs |-> NoResp]
    /\ loopOwner = 0

Spec == Init /\ [][Next]_vars
SpecConc == InitConc /\ [][Next]_vars

----------------------------------------------------------------------------
(* Properties *)

Finished(s) == s.pc \in {"finally", "done"} /\ s.result.kind = "BoostResponse"
HasLine(logs, line) == \E k \in 1..Len(logs) : logs[k][1] = line
Has(seq, x) == \E k \in 1..Len(seq) : seq[k] = x

\* C1: the click loop attempts a click on exactly the first
\* min(num_buttons, len(boostable)) entries of the boostable list, in list
\* (document) order and each at most once, never on more than num_buttons
\* buttons, and a success response has 0 <= clicked_count <= that minimum.
C1_ClicksFirstMin ==
    \A r \in Reqs :
        LET s == w[r]
            n == Min(s.num_buttons, Len(s.boostable))
        IN  /\ Len(s.attempted) <= n
            /\ Len(s.attempted) <= s.num_buttons
            /\ \A k \in 1..Len(s.attempted) : s.attempted[k] = s.boostable[k].btn
            /\ \A j, k \in 1..Len(s.boostable) :
                   j < k => s.boostable[j].btn < s.boostable[k].btn
            /\ (Finished(s) /\ s.result.success) =>
                   /\ Len(s.attempted) = n
                   /\ 0 <= s.result.clicked_count
                   /\ s.result.clicked_count <= n
                   /\ s.result.clicked_count = Len(s.result.clicked_addresses)

\* a success response of a run that found two boostable buttons, was asked
\* for one, and attempted the first only
C1_Witness ==
    \E r \in Reqs :
        /\ Finished(w[r]) /\ w[r].result.success
        /\ w[r].num_buttons = 1 /\ Len(w[r].boostable) = 2
        /\ w[r].attempted = <<w[r].boostable[1].btn>>

\* C4: the steps of one run happen in a fixed order and none is skipped:
\* email before password, login confirmed before the listing page is opened,
\* the page scrolled before it is polled, and no click on a boost button
\* unless login was confirmed, the listing page opened and a context found.
RunOrder ==
    << "get home", "click sign-in link", "send email", "click signin-button",
       "send password", "click signin-with-password-button",
       "url contains dashboard", "get listing", "read height", "scroll",
       "count main", "context found" >>

RECURSIVE MainEvents(_)
MainEvents(ops) ==
    IF ops = <<>> THEN <<>>
    ELSE LET rest == MainEvents(Tail(ops))
         IN  IF ~Has(RunOrder, Head(ops)) THEN rest
             ELSE IF rest # <<>> /\ Head(rest) = Head(ops) THEN rest
             ELSE <<Head(ops)>> \o rest

C4_FixedOrder ==
    \A r \in Reqs :
        LET ev == MainEvents(w[r].ops)
        IN  /\ Len(ev) <= Len(RunOrder)
            /\ ev = SubSeq(RunOrder, 1, Len(ev))
            /\ (w[r].attempted # <<>> \/ Has(w[r].ops, "click boost")) =>
                   ev = RunOrder

\* a run that went all the way to a click
C4_Witness ==
    \E r \in Reqs : w[r].pc = "done" /\ Has(w[r].ops, "click boost")

\* C6: the scroll loop terminates: each iteration counts one step, there are
\* at least 1 and at most DEFAULT_MAX_SCROLL_LOOPS of them, the loop stops
\* right after the first step whose height equals the height before it, and
\* when the height changes at every step it stops after exactly
\* DEFAULT_MAX_SCROLL_LOOPS steps and the worker goes on to polling.
C6_Counts ==
    \A r \in Reqs :
        /\ w[r].pc = "scroll_loop" =>
               /\ w[r].loops \in 0..DEFAULT_MAX_SCROLL_LOOPS
               /\ w[r].loops >= 1 => w[r].obs[1] # w[r].obs[2]
        /\ w[r].pc = "scroll_end" =>
               /\ w[r].loops \in 1..DEFAULT_MAX_SCROLL_LOOPS
               /\ w[r].obs[1] = w[r].obs[2]

C6_Steps ==
    \A r \in Reqs :
        /\ (w[r].pc = "scroll_loop" /\ w'[r] # w[r]) =>
               \/ /\ w'[r].pc \in {"scroll_loop", "scroll_end"}
                  /\ w'[r].loops = w[r].loops + 1
               \/ w'[r].pc = "except"
               \/ w'[r].pc = "poll" /\ w[r].loops = DEFAULT_MAX_SCROLL_LOOPS
        /\ (w[r].pc = "scroll_end" /\ w'[r] # w[r]) => w'[r].pc = "poll"

C6_ScrollTerminates == []C6_Counts /\ [][C6_Steps]_vars

\* the height changed at each of DEFAULT_MAX_SCROLL_LOOPS steps
C6_Witness ==
    \E r \in Reqs :
        w[r].pc = "scroll_loop" /\ w[r].loops = DEFAULT_MAX_SCROLL_LOOPS

\* C8: a run that ends with nothing to boost, because polling found no
\* context or because the boostable list is empty after filtering, attempts
\* a screenshot, attempts no click and returns success=False with the error
\* of its case; success=True is returned only when a boostable button was found.
C8_NothingToBoost ==
    \A r \in Reqs :
        LET s == w[r] IN
        Finished(s) =>
            /\ (HasLine(s.logs, "[JS POLL RESULT]") /\ ~Has(s.ops, "context found")) =>
                   /\ s.shots >= 1 /\ s.attempted = <<>> /\ ~s.result.success
                   /\ s.result.clicked_count = 0
                   /\ s.result.error = "No listing cards or buttons found after JS polling"
            /\ (HasLine(s.logs, "Total boostable detected") /\ s.boostable = <<>>) =>
                   /\ s.shots >= 1 /\ s.attempted = <<>> /\ ~s.result.success
                   /\ s.result.clicked_count = 0
                   /\ s.result.error = "No boostable buttons found to click"
            /\ s.result.success => s.boostable # <<>>

\* a run whose filtering left nothing, after polling had found a context
C8_Witness ==
    \E r \in Reqs :
        /\ w[r].pc = "done"
        /\ HasLine(w[r].logs, "Total boostable detected") /\ w[r].boostable = <<>>
        /\ w[r].result.error = "No boostable buttons found to click"

\* C2 as stated: the call never propagates an exception, and after a failure
\* of any step other than the inspection or click of one button, driver.quit
\* included, the response has success=False, clicked_count=0 and no
\* clicked_addresses.
C2_AnyFailureFails ==
    \A r \in Reqs :
        LET s == w[r] IN
        /\ s.pc # "raised"
        /\ (s.pc = "done" /\ (s.exc # None \/ s.swallowed # {})) =>
               /\ s.result.kind = "BoostResponse"
               /\ ~s.result.success
               /\ s.result.clicked_count = 0
               /\ s.result.clicked_addresses = <<>>

\* C2, amended: the call never propagates an exception and always returns a
\* BoostResponse; when an exception reaches the handler at line 362 the
\* response has success=False, error equal to the exception's message,
\* clicked_count=0, no clicked_addresses, and debug_logs made of every line
\* logged before the exception followed by the 'Unhandled exception: ...'
\* line; when none does (a failure of quit, of a polling script or of the
\* iframe collection is caught where it happens) the response is success=True.
C2_HandlerResponse ==
    \A r \in Reqs :
        LET s == w[r]
            n == Len(s.logsAtRaise)
        IN  /\ s.pc # "raised"
            /\ s.pc \in {"finally", "done"} => s.result.kind = "BoostResponse"
            /\ (Finished(s) /\ s.exc # None) =>
                   /\ ~s.result.success
                   /\ s.result.error = s.exc
                   /\ s.result.clicked_count = 0
                   /\ s.result.clicked_addresses = <<>>
                   /\ Len(s.result.debug_logs) > n
                   /\ SubSeq(s.result.debug_logs, 1, n) = s.logsAtRaise
                   /\ s.result.debug_logs[n + 1] = <<"Unhandled exception: ", s.exc>>
            /\ (Finished(s) /\ s.exc = None) =>
                   /\ s.result.success
                   /\ s.result.error = None
                   /\ s.result.debug_logs = SubSeq(s.logs, 1, Len(s.result.debug_logs))

\* a login wait timed out after the email was entered, and quit failed too
C2_Witness ==
    \E r \in Reqs :
        /\ w[r].pc = "done" /\ w[r].exc = "TimeoutException"
        /\ HasLine(w[r].logsAtRaise, "Entered email")
        /\ ~HasLine(w[r].logsAtRaise, "Entered password")
        /\ "quit" \in w[r].swallowed

\* the last inspected button is the last entry of the boostable list
Added(s) ==
    /\ s.boostable # <<>>
    /\ s.boostable[Len(s.boostable)].btn = s.lastInsp.btn

\* the filter as the claim words it, on the text and class attribute shown
ClaimedBoostable(raw, cls) ==
    LET norm == Normalise(Lower(Strip(raw)))
    IN  /\ Contains(norm, <<"boost">>)
        /\ ~Contains(cls, <<"usage-boost-inprogress">>)
        /\ ~Contains(norm, <<"progress">>)
        /\ ~Contains(norm, <<"in", "progress">>)

\* what a button with this text and class attribute shows of being in progress
ShowsInProgress(raw, cls) ==
    \/ \E k \in 1..Len(raw) : raw[k] \in {"progress", "PROGRESS"}
    \/ \E k \in 1..Len(cls) : cls[k] \in {"usage-boost-inprogress", "USAGE-BOOST-INPROGRESS"}

C5_Rest(s) ==
    /\ (s.lastInsp.seen /\ s.lastInsp.raised) =>
           /\ ~Added(s)
           /\ s.pc = "inspect" /\ s.idx = s.lastInsp.btn
    /\ (s.lastInsp.seen /\ Added(s)) =>
           ~ShowsInProgress(s.lastInsp.raw, s.lastInsp.cls)
    /\ \A k \in 1..Len(s.boostable) : ~Has(s.boostable[k].text, "progress")
    /\ \A k \in 1..Len(s.attempted) :
           \E j \in 1..Len(s.boostable) : s.boostable[j].btn = s.attempted[k]

\* C5 as stated: a collected button is put in the boostable list if and only
\* if its normalised lower-cased text contains 'boost', its class attribute
\* does not contain 'usage-boost-inprogress' and its text contains neither
\* 'progress' nor 'inprogress'.
C5_FilterAsStated ==
    \A r \in Reqs :
        LET s == w[r] IN
        /\ (s.lastInsp.seen /\ ~s.lastInsp.raised) =>
               (Added(s) <=> ClaimedBoostable(s.lastInsp.raw, s.lastInsp.cls))
        /\ C5_Rest(s)

\* C5, amended: a collected button whose inspection does not raise is put in
\* the boostable list if and only if its normalised lower-cased text
\* contains 'boost', its lower-cased class attribute does not contain
\* 'usage-boost-inprogress' and its text contains neither 'progress' nor
\* 'inprogress'; no click is attempted on a button that was in progress when
\* inspected; a button whose inspection raises is skipped and the loop goes on.
C5_Filter ==
    \A r \in Reqs :
        LET s == w[r] IN
        /\ (s.lastInsp.seen /\ ~s.lastInsp.raised) =>
               (Added(s) <=> ClaimedBoostable(s.lastInsp.raw, Lower(s.lastInsp.cls)))
        /\ C5_Rest(s)

\* a button reading BOOST whose class attribute spells the in-progress
\* class in capitals was inspected and left out
C5_Witness ==
    \E r \in Reqs :
        /\ w[r].lastInsp.seen /\ ~w[r].lastInsp.raised
        /\ w[r].lastInsp.raw = <<"BOOST">>
        /\ Has(w[r].lastInsp.cls, "USAGE-BOOST-INPROGRESS")
        /\ ~Added(w[r])

Polling(s) == s.pc \in {"poll", "poll_iframes", "poll_result"}

C7_Choice(s) ==
    /\ s.pc = "poll_iframes" =>
           /\ s.c_buttons = 0 /\ s.c_cards = 0 /\ s.c_addresses = 0
           /\ s.found_context = NoContext
           /\ s.elapsed < DEFAULT_JS_POLL_TIMEOUT
    /\ s.pc = "poll" => s.found_context = NoContext
    /\ s.pc = "poll_result" =>
           /\ s.found_context # NoContext
           /\ (s.c_buttons > 0 \/ s.c_cards > 0 \/ s.c_addresses > 0) =>
                  /\ s.found_context = <<"main", -1>>
                  /\ s.found_count \in {s.c_buttons, s.c_cards, s.c_addresses}
                  /\ s.found_count >= s.c_buttons
                  /\ s.found_count >= s.c_cards
                  /\ s.found_count >= s.c_addresses
           /\ (s.c_buttons = 0 /\ s.c_cards = 0 /\ s.c_addresses = 0) =>
                  /\ s.found_context[1] = "iframe"
                  /\ \E k \in 1..Len(s.iframe_counts) :
                         /\ s.iframe_counts[k] = <<s.found_context[2], s.found_count>>
                         /\ s.found_count > 0
                  /\ \A k \in 1..Len(s.iframe_counts) :
                         s.iframe_counts[k][1] < s.found_context[2] =>
                             s.iframe_counts[k][2] <= 0

C7_Stops ==
    \A r \in Reqs :
        /\ (w[r].pc = "poll" /\ w'[r].pc \in {"poll_iframes", "poll_result"}) =>
               w[r].elapsed < DEFAULT_JS_POLL_TIMEOUT
        /\ (w[r].pc = "poll" /\ w'[r].pc = "except") =>
               /\ w[r].elapsed >= DEFAULT_JS_POLL_TIMEOUT
               /\ w'[r].exc = "No listing cards or buttons found after JS polling"
        /\ (w[r].pc = "poll_result" /\ w'[r] # w[r]) => w'[r].pc = "collect"

\* C7 as stated, its last part: the driver is back in the default content
\* after every iframe probe.
C7_AlwaysBackInDefault ==
    \A r \in Reqs : Polling(w[r]) => w[r].frame = Default

\* C7, amended: in each polling round the main document has priority (any
\* positive main count gives ('main', None) with the maximum of the three
\* counts); iframes are examined only when all three are 0, and then the
\* lowest-indexed iframe with a positive count is chosen; the loop stops at
\* the first round that finds a context and otherwise once
\* DEFAULT_JS_POLL_TIMEOUT has elapsed; after every iframe probe a switch
\* back to the default content is attempted, and the driver is in the
\* default content unless that switch itself raised.
C7_Polling ==
    /\ [](\A r \in Reqs : C7_Choice(w[r]))
    /\ [](\A r \in Reqs : (Polling(w[r]) /\ w[r].frame # Default) => w[r].backFailed)
    /\ [][C7_Stops]_vars

\* the second iframe was chosen: the main counts and the first iframe's
\* count were not positive
C7_Witness ==
    \E r \in Reqs :
        /\ w[r].pc = "poll_result" /\ w[r].found_context = <<"iframe", 1>>
        /\ Len(w[r].iframe_counts) >= 2

\* C9 as stated: when get_driver returned a driver, quit is called exactly
\* once, after the last other use of the driver and before the call returns;
\* when driver creation failed, quit is never called; no browser session
\* outlives the request that created it.
C9_NoSessionOutlives ==
    \A r \in Reqs :
        LET s == w[r] IN
        /\ s.pc # "done" => s.quits = 0
        /\ s.pc = "done" =>
               /\ s.driver # None => s.quits = 1 /\ s.ops[Len(s.ops)] = "quit"
               /\ s.driver = None => s.quits = 0
               /\ s.session # "running"

\* the part of C9 about the calls of quit alone
C9_QuitOnce ==
    \A r \in Reqs :
        LET s == w[r] IN
        /\ s.pc # "done" => s.quits = 0
        /\ s.pc = "done" =>
               /\ s.driver # None => s.quits = 1 /\ s.ops[Len(s.ops)] = "quit"
               /\ s.driver = None => s.quits = 0

InSession(s) == s.pc \notin {"idle", "done", "raised"}

\* C3: the browser session never runs on the event-loop thread: every call
\* of the worker runs on an executor thread, the event loop stays free to
\* start any other received request while sessions are in progress, and the
\* response of each request is the result of its own worker call.
C3_OffLoop ==
    \A r \in Reqs :
        /\ w[r].pc # "idle" => w[r].thread = "executor"
        /\ InSession(w[r]) => loopOwner = 0
        /\ ep[r] = "received" => ENABLED boost_endpoint(r)
        /\ ep[r] = "responded" =>
               /\ w[r].pc = "done"
               /\ http[r] = w[r].result
               /\ http[r].kind = "BoostResponse"
        /\ ep[r] # "responded" => http[r] = NoResp

\* two sessions in progress at once, the event loop free
C3_Witness ==
    /\ w[1].pc = "poll" /\ w[2].pc = "enter_email"
    /\ loopOwner = 0

====
